---- MODULE Spec2Model ----
(***************************************************************************)
(* BSCC, the BLOCC system chaincode: the Init entry point and the          *)
(* background consumer it starts, the processEvent pipeline                *)
(* (gatherOrdererInfo, createTempFile, approveSensoryReading,              *)
(* removeTempFile), and the Invoke dispatcher with CheckForkStatus.        *)
(***************************************************************************)
EXTENDS Integers, Sequences, FiniteSets, TLC

\* ------------------------------ bounds ---------------------------------
MaxInits == 2      \* calls of Init made by the host
MaxEvents == 2     \* events published on the global event bus
MaxArgs == 3       \* longest argument list handed to Invoke
FrameInits == 1    \* calls of Init while Invoke calls are interleaved
FrameEvents == 1   \* events published while Invoke calls are interleaved

\* ----------------------------- constants -------------------------------
approveSensoryReading == "ApproveSensoryReading"
simulateForkAttempt == "SimulateForkAttempt"
checkForkStatus == "CheckForkStatus"

Name == "bscc"

Nil == "nil"
NotSet == "<unset>"
NoEvent == 0
NoPath == <<>>
NoAddress == <<>>     \* the empty string, as an address
NoCert == <<>>        \* nil bytes

Consumers == 1..MaxInits
EventIds == 1..MaxEvents
Channels == {"ch1", "ch2"}

\* The zero value of the Config struct.
ZeroConfig == [PeerAddress |-> "", TLSCertFile |-> "", CryptoProvider |-> Nil]

\* The values the two environment variables can have when the peer starts.
EnvChoices ==
  [CORE_PEER_ADDRESS : {NotSet, "peer0:7051"},
   CORE_PEER_TLS_ROOTCERT_FILE : {NotSet, "/tls/ca.crt"}]

\* os.LookupEnv: the value and whether the variable is present.
LookupEnv(e, key) == [value |-> IF e[key] = NotSet THEN "" ELSE e[key],
                      ok |-> e[key] # NotSet]

\* bscc.peerInstance.CryptoProvider, set by New.
PeerCryptoProvider == "bccsp"

\* --------------------------- orderer registry --------------------------
OrdererAddress(channelID, i) == <<"orderer", channelID, i>>
RootCert(channelID, i) == <<"cert", channelID, i>>

RegistryShapes == {"lookupError", "noOrg", "oneOrg", "twoOrgs",
                   "noAddress", "noRootCert"}

\* peer.GetOrdererInfo: the organizations registered for a channel, each
\* with its address list and its root-certificate list.
GetOrdererInfo(channelID, shape) ==
  LET org(a, r) == [Addresses |-> [i \in 1..a |-> OrdererAddress(channelID, i)],
                    RootCerts |-> [i \in 1..r |-> RootCert(channelID, i)]]
      org2 == [Addresses |-> <<OrdererAddress(channelID, 3)>>,
               RootCerts |-> <<RootCert(channelID, 3)>>]
  IN  CASE shape = "lookupError" -> [ordererOrg |-> <<>>, err |-> "orderer lookup failed"]
        [] shape = "noOrg"       -> [ordererOrg |-> <<>>, err |-> Nil]
        [] shape = "oneOrg"      -> [ordererOrg |-> <<org(1, 1)>>, err |-> Nil]
        [] shape = "twoOrgs"     -> [ordererOrg |-> <<org(2, 2), org2>>, err |-> Nil]
        [] shape = "noAddress"   -> [ordererOrg |-> <<org(0, 1)>>, err |-> Nil]
        [] shape = "noRootCert"  -> [ordererOrg |-> <<org(1, 0)>>, err |-> Nil]

NoOrdererOrg == "No orderer organization found"

gatherOrdererInfoMixesOrgs(info) ==
  IF info.err # Nil
    THEN [address |-> NoAddress, rootCertFile |-> NoCert, err |-> info.err, panic |-> FALSE]
  ELSE IF Len(info.ordererOrg) = 0
    THEN [address |-> NoAddress, rootCertFile |-> NoCert, err |-> NoOrdererOrg, panic |-> FALSE]
  ELSE LET orderer == info.ordererOrg[1]
           last == info.ordererOrg[Len(info.ordererOrg)]
       IN  IF Len(orderer.Addresses) = 0 \/ Len(last.RootCerts) = 0
             THEN [address |-> NoAddress, rootCertFile |-> NoCert, err |-> Nil, panic |-> TRUE]
             ELSE [address |-> orderer.Addresses[1],
                   rootCertFile |-> last.RootCerts[1],
                   err |-> Nil, panic |-> FALSE]

\* gatherOrdererInfo: the first organization's first address and first
\* root certificate; indexing an empty list panics.
gatherOrdererInfo(info) ==
  IF info.err # Nil
    THEN [address |-> NoAddress, rootCertFile |-> NoCert, err |-> info.err, panic |-> FALSE]
  ELSE IF Len(info.ordererOrg) = 0
    THEN [address |-> NoAddress, rootCertFile |-> NoCert, err |-> NoOrdererOrg, panic |-> FALSE]
  ELSE LET orderer == info.ordererOrg[1]
       IN  IF Len(orderer.Addresses) = 0 \/ Len(orderer.RootCerts) = 0
             THEN [address |-> NoAddress, rootCertFile |-> NoCert, err |-> Nil, panic |-> TRUE]
             ELSE [address |-> orderer.Addresses[1],
                   rootCertFile |-> orderer.RootCerts[1],
                   err |-> Nil, panic |-> FALSE]

\* ------------------------------- state ---------------------------------
VARIABLES
  env,          \* the process environment
  config,       \* bscc.config
  initPc,       \* position of the host's Init call: "idle" or "running"
  initResults,  \* the responses of the Init calls made so far
  pc,           \* position of each consumer goroutine
  cur,          \* the event a consumer's processEvent is running for
  queue,        \* the channel Subscribe() returned to each consumer
  published,    \* the events published so far, in order
  local,        \* processEvent's address, rootCertFile, rootCertFilePath, err,
                \* what the registry returned to gatherOrdererInfo and the
                \* command approveSensoryReading is executing
  disk,         \* temp files on disk: name -> content
  removed,      \* per temp file, the os.Remove calls that succeeded
  submitted,    \* the runs of processEvent that executed the approval command
  done,         \* the <<consumer, event>> runs of processEvent that returned
  crashed,      \* a goroutine panicked: the process is gone
  markers,      \* the fork_info.txt files that exist
  lastInvoke    \* the latest call of Invoke: its inputs, the markers that
                \* existed, its response and the calls it made

vars == <<env, config, initPc, initResults, pc, cur, queue, published,
          local, disk, removed, submitted, done, crashed, markers,
          lastInvoke>>

pipelineVars == <<env, config, initPc, initResults, pc, cur, queue, published,
                  local, disk, removed, submitted, done, crashed>>

\* ioutil.TempFile("", "rootCertFile"): a name no other call returns.
TempFile(c, ev) == <<"rootCertFile", c, ev>>
TempNames == {TempFile(c, ev) : c \in Consumers, ev \in EventIds}
Absent == <<"absent">>

Runs == Consumers \X EventIds
NoCmd == <<>>

NoInvoke == [called |-> FALSE]

NoInfo == [ordererOrg |-> <<>>, err |-> "not looked up"]
NoLocals == [info |-> NoInfo, address |-> NoAddress, rootCertFile |-> NoCert,
             rootCertFilePath |-> NoPath, err |-> Nil, cmd |-> NoCmd]

Init ==
  /\ env \in EnvChoices
  /\ config = ZeroConfig
  /\ initPc = "idle"
  /\ initResults = <<>>
  /\ pc = [c \in Consumers |-> "unborn"]
  /\ cur = [c \in Consumers |-> NoEvent]
  /\ queue = [c \in Consumers |-> <<>>]
  /\ published = <<>>
  /\ local = [c \in Consumers |-> NoLocals]
  /\ disk = [n \in TempNames |-> Absent]
  /\ removed = [n \in TempNames |-> 0]
  /\ submitted = {}
  /\ done = {}
  /\ crashed = FALSE
  /\ markers = {}
  /\ lastInvoke = NoInvoke

\* ------------------------------- Init ----------------------------------
InitBodyStoresFieldByField(e, cfg) ==
  LET peerAddress == LookupEnv(e, "CORE_PEER_ADDRESS")
      tlsCertFile == LookupEnv(e, "CORE_PEER_TLS_ROOTCERT_FILE")
  IN  IF ~peerAddress.ok
        THEN [response |-> [status |-> 500, message |-> "CORE_PEER_ADDRESS is not set"],
              config |-> cfg]
      ELSE IF ~tlsCertFile.ok
        THEN [response |-> [status |-> 500, message |-> "CORE_PEER_TLS_ROOTCERT_FILE is not set"],
              config |-> [cfg EXCEPT !.PeerAddress = peerAddress.value]]
      ELSE [response |-> [status |-> 200, message |-> ""],
            config |-> [PeerAddress |-> peerAddress.value,
                        TLSCertFile |-> tlsCertFile.value,
                        CryptoProvider |-> PeerCryptoProvider]]

\* What Init computes after it has started the consumer: the response and
\* the Config it leaves in bscc.config.
InitBody(e, cfg) ==
  LET peerAddress == LookupEnv(e, "CORE_PEER_ADDRESS")
      tlsCertFile == LookupEnv(e, "CORE_PEER_TLS_ROOTCERT_FILE")
  IN  IF ~peerAddress.ok
        THEN [response |-> [status |-> 500, message |-> "CORE_PEER_ADDRESS is not set"],
              config |-> cfg]
      ELSE IF ~tlsCertFile.ok
        THEN [response |-> [status |-> 500, message |-> "CORE_PEER_TLS_ROOTCERT_FILE is not set"],
              config |-> cfg]
      ELSE [response |-> [status |-> 200, message |-> ""],
            config |-> [PeerAddress |-> peerAddress.value,
                        TLSCertFile |-> tlsCertFile.value,
                        CryptoProvider |-> PeerCryptoProvider]]

\* Init, up to and including the go statement that starts the consumer.
InitCall ==
  /\ ~crashed
  /\ initPc = "idle"
  /\ Len(initResults) < MaxInits
  /\ initPc' = "running"
  /\ pc' = [pc EXCEPT ![Len(initResults) + 1] = "spawned"]
  /\ UNCHANGED <<env, config, initResults, cur, queue, published, local,
                 disk, removed, submitted, done, crashed,
                 markers, lastInvoke>>

\* Init, from the environment lookups to its return.
InitReturn ==
  /\ ~crashed
  /\ initPc = "running"
  /\ LET r == InitBody(env, config)
     IN  /\ config' = r.config
         /\ initResults' = Append(initResults, r.response)
  /\ initPc' = "idle"
  /\ UNCHANGED <<env, pc, cur, queue, published, local, disk, removed,
                 submitted, done, crashed,
                 markers, lastInvoke>>

\* ----------------------------- event bus -------------------------------
Subscribed == {c \in Consumers : pc[c] \notin {"unborn", "spawned"}}

\* The transaction id of the n-th sensory reading.
TxID(n) == <<"tx", n>>

\* GlobalEventBus.Subscribe(), the first step of the consumer goroutine.
Subscribe(c) ==
  /\ ~crashed
  /\ pc[c] = "spawned"
  /\ pc' = [pc EXCEPT ![c] = "idle"]
  /\ UNCHANGED <<env, config, initPc, initResults, cur, queue, published,
                 local, disk, removed, submitted, done, crashed,
                 markers, lastInvoke>>

\* The channels an event can be published on; channel names are
\* interchangeable, so the first event's channel is called "ch1".
PublishChannels == IF published = <<>> THEN {"ch1"} ELSE Channels

\* GlobalEventBus.Publish(event): every subscriber receives the event.
Publish ==
  /\ ~crashed
  /\ Len(published) < MaxEvents
  /\ \E ch \in PublishChannels :
       published' = Append(published,
                           [ChannelID |-> ch,
                            SensoryTxID |-> TxID(Len(published) + 1)])
  /\ queue' = [c \in Consumers |->
                 IF c \in Subscribed THEN Append(queue[c], Len(published) + 1)
                                     ELSE queue[c]]
  /\ UNCHANGED <<env, config, initPc, initResults, pc, cur, local, disk,
                 removed, submitted, done, crashed,
                 markers, lastInvoke>>

\* ---------------------------- processEvent -----------------------------
\* The consumer's range loop receives the next event and calls processEvent.
Receive(c) ==
  /\ ~crashed
  /\ pc[c] = "idle"
  /\ queue[c] # <<>>
  /\ cur' = [cur EXCEPT ![c] = Head(queue[c])]
  /\ queue' = [queue EXCEPT ![c] = Tail(queue[c])]
  /\ pc' = [pc EXCEPT ![c] = "gather"]
  /\ UNCHANGED <<env, config, initPc, initResults, published, local, disk,
                 removed, submitted, done, crashed,
                 markers, lastInvoke>>

\* processEvent returns: the locals are gone and the loop waits again.
Returned(c) ==
  /\ pc' = [pc EXCEPT ![c] = "idle"]
  /\ cur' = [cur EXCEPT ![c] = NoEvent]
  /\ local' = [local EXCEPT ![c] = NoLocals]
  /\ done' = done \cup {<<c, cur[c]>>}

\* processEvent calls gatherOrdererInfo, which returns address, rootCertFile
\* and err, or panics and takes the process down.
Gather(c) ==
  /\ ~crashed
  /\ pc[c] = "gather"
  /\ \E shape \in RegistryShapes :
       LET info == GetOrdererInfo(published[cur[c]].ChannelID, shape)
           r == gatherOrdererInfo(info)
       IN  IF r.panic
             THEN /\ crashed' = TRUE
                  /\ pc' = [pc EXCEPT ![c] = "panicked"]
                  /\ UNCHANGED local
             ELSE /\ local' = [local EXCEPT ![c].info = info,
                                            ![c].address = r.address,
                                            ![c].rootCertFile = r.rootCertFile,
                                            ![c].err = r.err]
                  /\ pc' = [pc EXCEPT ![c] = "stage"]
                  /\ UNCHANGED crashed
  /\ UNCHANGED <<env, config, initPc, initResults, cur, queue, published,
                 disk, removed, submitted, done,
                 markers, lastInvoke>>

Partial == <<"partial">>
StagingFaults == {"none", "create", "write", "close"}

\* createTempFile: the path and error it returns and what it leaves on disk
\* under the name TempFile chose. A file whose Write or Close failed holds
\* some part of the bytes.
createTempFile(name, rootCertFile, fault) ==
  CASE fault = "create" -> [path |-> NoPath, err |-> "create failed", file |-> Absent]
    [] fault = "write"  -> [path |-> NoPath, err |-> "write failed", file |-> Partial]
    [] fault = "close"  -> [path |-> NoPath, err |-> "close failed", file |-> Partial]
    [] fault = "none"   -> [path |-> name, err |-> Nil, file |-> rootCertFile]

StageIgnoresError(c) ==
  /\ ~crashed
  /\ pc[c] = "stage"
  /\ \E fault \in StagingFaults :
       LET name == TempFile(c, cur[c])
           r == createTempFile(name, local[c].rootCertFile, fault)
       IN  /\ disk' = IF r.file = Absent THEN disk
                                         ELSE [disk EXCEPT ![name] = r.file]
           /\ local' = [local EXCEPT ![c].info = NoInfo,
                                     ![c].rootCertFilePath = r.path,
                                     ![c].err = r.err]
           /\ pc' = [pc EXCEPT ![c] = "approve"]
           /\ UNCHANGED <<cur, done>>
  /\ UNCHANGED <<env, config, initPc, initResults, queue, published, removed,
                 submitted, crashed, markers, lastInvoke>>

\* processEvent after gatherOrdererInfo: an error is logged and ends the
\* run; otherwise createTempFile is called.
Stage(c) ==
  /\ ~crashed
  /\ pc[c] = "stage"
  /\ IF local[c].err # Nil
       THEN /\ Returned(c)
            /\ UNCHANGED disk
       ELSE \E fault \in StagingFaults :
              LET name == TempFile(c, cur[c])
                  r == createTempFile(name, local[c].rootCertFile, fault)
              IN  /\ disk' = IF r.file = Absent THEN disk
                                                ELSE [disk EXCEPT ![name] = r.file]
                  /\ local' = [local EXCEPT ![c].info = NoInfo,
                                            ![c].rootCertFilePath = r.path,
                                            ![c].err = r.err]
                  /\ pc' = [pc EXCEPT ![c] = "approve"]
                  /\ UNCHANGED <<cur, done>>
  /\ UNCHANGED <<env, config, initPc, initResults, queue, published, removed,
                 submitted, crashed,
                 markers, lastInvoke>>

\* The values of bscc.config that approveSensoryReading can read: Init
\* writes the struct without synchronisation, so while a call of Init is
\* between its go statement and its return each field read is the old or
\* the new one.
ConfigViews ==
  IF initPc = "running"
    THEN LET new == InitBody(env, config).config
         IN  [PeerAddress : {config.PeerAddress, new.PeerAddress},
              TLSCertFile : {config.TLSCertFile, new.TLSCertFile},
              CryptoProvider : {config.CryptoProvider, new.CryptoProvider}]
    ELSE {config}

approveSensoryReadingCmdFixedOrderer(address, path, event, cfg) ==
  [cryptoProvider |-> cfg.CryptoProvider,
   ordererAddress |-> OrdererAddress("ch1", 1),
   rootCertFilePath |-> path,
   channelID |-> event.ChannelID,
   txID |-> event.SensoryTxID,
   peerAddress |-> cfg.PeerAddress,
   tlsRootCertFile |-> cfg.TLSCertFile]

\* The method approveSensoryReading: the command it builds and executes.
approveSensoryReadingCmd(address, path, event, cfg) ==
  [cryptoProvider |-> cfg.CryptoProvider,
   ordererAddress |-> address,
   rootCertFilePath |-> path,
   channelID |-> event.ChannelID,
   txID |-> event.SensoryTxID,
   peerAddress |-> cfg.PeerAddress,
   tlsRootCertFile |-> cfg.TLSCertFile]

\* processEvent after createTempFile: an error is logged and ends the run;
\* otherwise the removal is deferred and approveSensoryReading runs up to
\* its call of Execute.
Approve(c) ==
  /\ ~crashed
  /\ pc[c] = "approve"
  /\ IF local[c].err # Nil
       THEN /\ Returned(c)
            /\ UNCHANGED submitted
       ELSE /\ \E cfg \in ConfigViews :
                 local' = [local EXCEPT ![c].cmd =
                   approveSensoryReadingCmd(local[c].address,
                                            local[c].rootCertFilePath,
                                            published[cur[c]], cfg)]
            /\ submitted' = submitted \cup {<<c, cur[c]>>}
            /\ pc' = [pc EXCEPT ![c] = "executing"]
            /\ UNCHANGED <<cur, done>>
  /\ UNCHANGED <<env, config, initPc, initResults, queue, published, disk,
                 removed, crashed,
                 markers, lastInvoke>>

\* Execute returns, with an error or without; the deferred removal is next.
Executed(c) ==
  /\ ~crashed
  /\ pc[c] = "executing"
  /\ \E err \in {Nil, "approval failed"} :
       local' = [local EXCEPT ![c].err = err, ![c].cmd = NoCmd]
  /\ pc' = [pc EXCEPT ![c] = "remove"]
  /\ UNCHANGED <<env, config, initPc, initResults, cur, queue, published,
                 disk, removed, submitted, done, crashed,
                 markers, lastInvoke>>

\* The path the deferred call removes.
DeferredPath(c) == local[c].rootCertFilePath

removeTempFileEscalates(c) ==
  /\ ~crashed
  /\ pc[c] = "remove"
  /\ \E fault \in BOOLEAN :
       LET filePath == DeferredPath(c)
           ok == ~fault /\ disk[filePath] # Absent
       IN  /\ disk' = IF ok THEN [disk EXCEPT ![filePath] = Absent] ELSE disk
           /\ removed' = IF ok THEN [removed EXCEPT ![filePath] = @ + 1] ELSE removed
           /\ IF ok
                THEN Returned(c) /\ UNCHANGED crashed
                ELSE /\ crashed' = TRUE
                     /\ pc' = [pc EXCEPT ![c] = "panicked"]
                     /\ UNCHANGED <<cur, local, done>>
  /\ UNCHANGED <<env, config, initPc, initResults, queue, published,
                 submitted, markers, lastInvoke>>

\* removeTempFile, deferred by processEvent: os.Remove succeeds or fails;
\* a failure is logged and processEvent returns either way.
removeTempFile(c) ==
  /\ ~crashed
  /\ pc[c] = "remove"
  /\ \E fault \in BOOLEAN :
       LET filePath == DeferredPath(c)
           ok == ~fault /\ disk[filePath] # Absent
       IN  /\ disk' = IF ok THEN [disk EXCEPT ![filePath] = Absent] ELSE disk
           /\ removed' = IF ok THEN [removed EXCEPT ![filePath] = @ + 1] ELSE removed
  /\ Returned(c)
  /\ UNCHANGED <<env, config, initPc, initResults, queue, published,
                 submitted, crashed,
                 markers, lastInvoke>>

\* ------------------------------ the system -----------------------------
Next ==
  \/ InitCall
  \/ InitReturn
  \/ Publish
  \/ \E c \in Consumers : Subscribe(c)
  \/ \E c \in Consumers : Receive(c)
  \/ \E c \in Consumers : Gather(c)
  \/ \E c \in Consumers : Stage(c)
  \/ \E c \in Consumers : Approve(c)
  \/ \E c \in Consumers : Executed(c)
  \/ \E c \in Consumers : removeTempFile(c)

Spec == Init /\ [][Next]_vars

\* The steps of consumer goroutine c.
ConsumerStep(c) ==
  \/ Subscribe(c)
  \/ Receive(c)
  \/ Gather(c)
  \/ Stage(c)
  \/ Approve(c)
  \/ Executed(c)
  \/ removeTempFile(c)

\* The Go scheduler runs every goroutine that can run, the host's call of
\* Init returns, and the calls a consumer makes return.
FairSpec ==
  /\ Spec
  /\ WF_vars(InitReturn)
  /\ \A c \in Consumers : WF_vars(ConsumerStep(c))

\* ------------------------------ dispatcher -----------------------------
\* shim.Error and shim.Success.
Error(msg) == [status |-> 500, message |-> msg, payload |-> Nil]
Success(payload) == [status |-> 200, message |-> "", payload |-> payload]

\* The argument lists handed to Invoke: a function name, a second argument
\* and further arguments up to MaxArgs.
LongChannelID == "a x 256"
FunctionNames == {approveSensoryReading, simulateForkAttempt, checkForkStatus,
                  "UnknownFn"}
SecondArgs == {"", "ch1", LongChannelID}
InvokeArgs ==
  {<<>>} \cup {<<f>> : f \in FunctionNames}
    \cup UNION {{<<f, a>> \o [i \in 1..(n - 2) |-> "x"] :
                   f \in FunctionNames, a \in SecondArgs} : n \in 2..MaxArgs}

\* What the stub and protoutil give for the call: GetSignedProposal fails,
\* or it succeeds and InvokedChaincodeName fails or returns a name.
Proposals ==
  {[spErr |-> "no signed proposal", name |-> "", nameErr |-> Nil],
   [spErr |-> Nil, name |-> "", nameErr |-> "could not unmarshal proposal"],
   [spErr |-> Nil, name |-> Name, nameErr |-> Nil],
   [spErr |-> Nil, name |-> "lscc", nameErr |-> Nil]}

\* The path of a channel's fork marker.
ForkInfoPath(channelID) ==
  <<"/var/hyperledger/production/ledgersData/chains/chains", channelID,
    "fork_info.txt">>

\* os.Stat: nil for a file that exists, ENOENT for one that does not, and
\* another error when the path cannot be examined at all.
StatFaults == {Nil, "EACCES"}
Stat(filename, files, fault) ==
  IF filename = ForkInfoPath(LongChannelID) THEN "ENAMETOOLONG"
  ELSE IF fault # Nil THEN fault
  ELSE IF filename \in files THEN Nil
  ELSE "ENOENT"

\* os.IsNotExist
IsNotExist(err) == err = "ENOENT"

\* json.Marshal of a bool
Marshal(b) == IF b THEN "true" ELSE "false"

\* CheckForkStatus: the response, given the files that exist.
CheckForkStatus(channelID, files, fault) ==
  IF channelID = ""
    THEN Error(<<"ChannelID not specified">>)
    ELSE LET filename == ForkInfoPath(channelID)
             isForked == ~IsNotExist(Stat(filename, files, fault))
         IN  Success(Marshal(isForked))

\* The "Handle ACL" part of Invoke: the error response of the first check
\* that fails (none when the caller is this chaincode) and the calls made.
ACLSkipsComparison(proposal) ==
  IF proposal.spErr # Nil
    THEN [rejected |-> TRUE,
          response |-> Error(<<"Failed getting signed proposal from stub", proposal.spErr>>),
          calls |-> <<"GetSignedProposal">>]
  ELSE IF proposal.nameErr # Nil
    THEN [rejected |-> TRUE,
          response |-> Error(<<"Failed to identify the called chaincode", proposal.nameErr>>),
          calls |-> <<"GetSignedProposal", "InvokedChaincodeName">>]
  ELSE [rejected |-> FALSE, response |-> Nil,
        calls |-> <<"GetSignedProposal", "InvokedChaincodeName">>]

ACLIgnoresExtractionError(proposal) ==
  IF proposal.spErr # Nil
    THEN [rejected |-> TRUE,
          response |-> Error(<<"Failed getting signed proposal from stub", proposal.spErr>>),
          calls |-> <<"GetSignedProposal">>]
  ELSE IF proposal.nameErr = Nil /\ proposal.name # Name
    THEN [rejected |-> TRUE,
          response |-> Error(<<"Rejecting invoke of CSCC from another chaincode", proposal.name>>),
          calls |-> <<"GetSignedProposal", "InvokedChaincodeName">>]
  ELSE [rejected |-> FALSE, response |-> Nil,
        calls |-> <<"GetSignedProposal", "InvokedChaincodeName">>]

ACL(proposal) ==
  IF proposal.spErr # Nil
    THEN [rejected |-> TRUE,
          response |-> Error(<<"Failed getting signed proposal from stub", proposal.spErr>>),
          calls |-> <<"GetSignedProposal">>]
  ELSE IF proposal.nameErr # Nil
    THEN [rejected |-> TRUE,
          response |-> Error(<<"Failed to identify the called chaincode", proposal.nameErr>>),
          calls |-> <<"GetSignedProposal", "InvokedChaincodeName">>]
  ELSE IF proposal.name # Name
    THEN [rejected |-> TRUE,
          response |-> Error(<<"Rejecting invoke of CSCC from another chaincode", proposal.name>>),
          calls |-> <<"GetSignedProposal", "InvokedChaincodeName">>]
  ELSE [rejected |-> FALSE, response |-> Nil,
        calls |-> <<"GetSignedProposal", "InvokedChaincodeName">>]

RouteFallsThrough(args, files, fault) ==
  LET fname == args[1]
  IN  CASE fname = approveSensoryReading ->
             [response |-> Success(args[2]), calls |-> <<fname>>]
        [] fname = checkForkStatus ->
             [response |-> CheckForkStatus(args[2], files, fault),
              calls |-> <<fname>>]
        [] OTHER ->
             [response |-> Success(Nil), calls |-> <<>>]

\* The switch on the function name: the response and the handler entered.
Route(args, files, fault) ==
  LET fname == args[1]
  IN  CASE fname = approveSensoryReading ->
             [response |-> Success(args[2]), calls |-> <<fname>>]
        [] fname = simulateForkAttempt ->
             [response |-> Success(Nil), calls |-> <<fname>>]
        [] fname = checkForkStatus ->
             [response |-> CheckForkStatus(args[2], files, fault),
              calls |-> <<fname>>]
        [] OTHER ->
             [response |-> Error(<<"Requested function not found", fname>>),
              calls |-> <<>>]

InvokeChecksCallerFirst(args, proposal, files, fault) ==
  LET acl == ACL(proposal)
  IN  IF acl.rejected
        THEN [response |-> acl.response, calls |-> acl.calls]
      ELSE IF Len(args) < 2
        THEN [response |-> Error(<<"Incorrect number of arguments", Len(args)>>),
              calls |-> acl.calls]
      ELSE LET r == Route(args, files, fault)
           IN  [response |-> r.response, calls |-> acl.calls \o r.calls]

InvokeRoutesUnknownFirst(args, proposal, files, fault) ==
  IF Len(args) < 2
    THEN [response |-> Error(<<"Incorrect number of arguments", Len(args)>>),
          calls |-> <<>>]
  ELSE IF args[1] \notin {approveSensoryReading, simulateForkAttempt, checkForkStatus}
    THEN [response |-> Error(<<"Requested function not found", args[1]>>),
          calls |-> <<>>]
  ELSE LET acl == ACL(proposal)
       IN  IF acl.rejected
             THEN [response |-> acl.response, calls |-> acl.calls]
             ELSE LET r == Route(args, files, fault)
                  IN  [response |-> r.response, calls |-> acl.calls \o r.calls]

\* Invoke: the response and the calls made on the way to it.
Invoke(args, proposal, files, fault) ==
  IF Len(args) < 2
    THEN [response |-> Error(<<"Incorrect number of arguments", Len(args)>>),
          calls |-> <<>>]
    ELSE LET acl == ACL(proposal)
         IN  IF acl.rejected
               THEN [response |-> acl.response, calls |-> acl.calls]
               ELSE LET r == Route(args, files, fault)
                    IN  [response |-> r.response, calls |-> acl.calls \o r.calls]

InvokeCallApprovesItself ==
  /\ ~crashed
  /\ \E args \in InvokeArgs, proposal \in Proposals, fault \in StatFaults :
       LET r == Invoke(args, proposal, markers, fault)
       IN  /\ lastInvoke' = [called |-> TRUE, args |-> args, proposal |-> proposal,
                             files |-> markers, fault |-> fault,
                             response |-> r.response, calls |-> r.calls]
           /\ submitted' = IF r.calls # <<>> /\ r.calls[Len(r.calls)] = approveSensoryReading
                             THEN submitted \cup {<<1, 1>>}
                             ELSE submitted
  /\ UNCHANGED <<env, config, initPc, initResults, pc, cur, queue, published,
                 local, disk, removed, done, crashed, markers>>

\* One call of Invoke by the host.
InvokeCall ==
  /\ ~crashed
  /\ \E args \in InvokeArgs, proposal \in Proposals, fault \in StatFaults :
       LET r == Invoke(args, proposal, markers, fault)
       IN  lastInvoke' = [called |-> TRUE, args |-> args, proposal |-> proposal,
                          files |-> markers, fault |-> fault,
                          response |-> r.response, calls |-> r.calls]
  /\ UNCHANGED <<pipelineVars, markers>>

\* The ledger writes or clears a channel's fork marker.
MarkerChange ==
  /\ \E ch \in Channels :
       markers' = IF ForkInfoPath(ch) \in markers
                    THEN markers \ {ForkInfoPath(ch)}
                    ELSE markers \cup {ForkInfoPath(ch)}
  /\ UNCHANGED <<pipelineVars, lastInvoke>>

NextInvoke ==
  \/ InvokeCall
  \/ MarkerChange

SpecInvoke == Init /\ [][NextInvoke]_vars

\* Invoke calls interleaved with Init, the event bus and the consumer.
NextInterleaved ==
  \/ InvokeCall
  \/ /\ Next
     /\ initPc' = "running" => Len(initResults') < FrameInits
     /\ Len(published') <= FrameEvents

\* As Init, on a peer that was given its address and whose ledger may
\* already have written the fork marker of the first channel.
InitInterleaved ==
  /\ env \in {e \in EnvChoices : e.CORE_PEER_ADDRESS # NotSet}
  /\ config = ZeroConfig
  /\ initPc = "idle"
  /\ initResults = <<>>
  /\ pc = [c \in Consumers |-> "unborn"]
  /\ cur = [c \in Consumers |-> NoEvent]
  /\ queue = [c \in Consumers |-> <<>>]
  /\ published = <<>>
  /\ local = [c \in Consumers |-> NoLocals]
  /\ disk = [n \in TempNames |-> Absent]
  /\ removed = [n \in TempNames |-> 0]
  /\ submitted = {}
  /\ done = {}
  /\ crashed = FALSE
  /\ markers \in {{}, {ForkInfoPath("ch1")}}
  /\ lastInvoke = NoInvoke

SpecInterleaved == InitInterleaved /\ [][NextInterleaved]_vars

\* ----------------------- claims about the dispatcher -------------------
ArgumentCountError(n) == Error(<<"Incorrect number of arguments", n>>)
IdentityMismatchError(name) ==
  Error(<<"Rejecting invoke of CSCC from another chaincode", name>>)

\* The latest call came with a proposal that was retrieved and named a
\* chaincode other than this one.
ForeignCall ==
  /\ lastInvoke.called
  /\ lastInvoke.proposal.spErr = Nil
  /\ lastInvoke.proposal.nameErr = Nil
  /\ lastInvoke.proposal.name # Name

Contains(seq, x) == \E i \in 1..Len(seq) : seq[i] = x

\* C4, as claimed: every call whose proposal names another chaincode gets
\* IdentityMismatchError, whatever the function and however many arguments,
\* fewer than two included.
C4_MismatchForAnyArgCount ==
  ForeignCall => lastInvoke.response = IdentityMismatchError(lastInvoke.proposal.name)

\* C4, amended: every call with at least two arguments whose proposal names
\* another chaincode gets IdentityMismatchError, whatever the function name;
\* with fewer than two arguments the response is ArgumentCountError.
C4_MismatchWithTwoArgs ==
  ForeignCall =>
    IF Len(lastInvoke.args) >= 2
      THEN lastInvoke.response = IdentityMismatchError(lastInvoke.proposal.name)
      ELSE lastInvoke.response = ArgumentCountError(Len(lastInvoke.args))

C4_Witness ==
  /\ ForeignCall
  /\ Len(lastInvoke.args) >= 2
  /\ lastInvoke.args[1] = "UnknownFn"
  /\ lastInvoke.response = IdentityMismatchError("lscc")

\* C5: a call with fewer than two arguments gets ArgumentCountError, and
\* Invoke neither retrieves the signed proposal nor routes, whatever the
\* first argument and whoever the caller.
C5_FewArgsNoRetrieval ==
  (lastInvoke.called /\ Len(lastInvoke.args) < 2) =>
    /\ lastInvoke.response = ArgumentCountError(Len(lastInvoke.args))
    /\ lastInvoke.calls = <<>>

C5_Witness ==
  /\ lastInvoke.called
  /\ lastInvoke.args = <<checkForkStatus>>
  /\ lastInvoke.proposal.name = Name
  /\ lastInvoke.proposal.spErr = Nil
  /\ lastInvoke.response = ArgumentCountError(1)

\* C6: a success response implies that the signed proposal was retrieved,
\* that the invoked name was extracted from it without error and that it is
\* this chaincode's name; a call whose name extraction failed is never
\* routed.
C6_SuccessOnlyForSelf ==
  lastInvoke.called =>
    /\ lastInvoke.response.status = 200 =>
         /\ Contains(lastInvoke.calls, "GetSignedProposal")
         /\ Contains(lastInvoke.calls, "InvokedChaincodeName")
         /\ lastInvoke.proposal.spErr = Nil
         /\ lastInvoke.proposal.nameErr = Nil
         /\ lastInvoke.proposal.name = Name
    /\ (lastInvoke.proposal.spErr = Nil /\ lastInvoke.proposal.nameErr # Nil) =>
         /\ lastInvoke.response.status = 500
         /\ \A f \in FunctionNames : ~Contains(lastInvoke.calls, f)

C6_Witness ==
  /\ lastInvoke.called
  /\ Len(lastInvoke.args) >= 2
  /\ lastInvoke.args[1] = checkForkStatus
  /\ lastInvoke.response.status = 200
  /\ lastInvoke.proposal.name = Name

\* C10, as claimed: for a non-empty channel id CheckForkStatus answers
\* success with the encoded boolean that is true exactly when the marker
\* file exists at the channel's path, whatever the existence check returns.
C10_ForkFlagIsMarkerExists ==
  (/\ lastInvoke.called
   /\ Len(lastInvoke.args) >= 2
   /\ lastInvoke.args[1] = checkForkStatus
   /\ lastInvoke.args[2] # ""
   /\ ~ACL(lastInvoke.proposal).rejected) =>
    lastInvoke.response =
      Success(Marshal(ForkInfoPath(lastInvoke.args[2]) \in lastInvoke.files))

\* --------------------- claims about the event pipeline -----------------
InPipeline(c) == pc[c] \in {"gather", "stage", "approve", "executing", "remove"}

\* A temp file exists or existed under this name.
Created(n) == disk[n] # Absent \/ removed[n] > 0

\* C1, as claimed: once processEvent has returned for an event, whichever
\* stage failed, the temp file created for it has been removed exactly once,
\* and no file of a run still in progress has been removed.
C1_TempFileRemovedExactlyOnce ==
  /\ \A r \in done :
       Created(TempFile(r[1], r[2])) =>
         /\ disk[TempFile(r[1], r[2])] = Absent
         /\ removed[TempFile(r[1], r[2])] = 1
  /\ \A r \in Runs : removed[TempFile(r[1], r[2])] > 0 => r \in done

\* Both required strings are in bscc.config.
Populated(cfg) == cfg.PeerAddress # "" /\ cfg.TLSCertFile # ""

\* C2, as claimed: whenever processEvent is running for some event, Init has
\* already stored the peer address and the TLS root-certificate path in
\* bscc.config.
C2_ConfigPopulatedBeforeProcessing ==
  \A c \in Consumers : InPipeline(c) => Populated(config)

\* Every call of Init so far has returned an error.
InitFailed ==
  /\ initPc = "idle"
  /\ Len(initResults) >= 1
  /\ \A k \in 1..Len(initResults) : initResults[k].status = 500

\* C3, as claimed: when Init has returned an error because a variable is
\* missing, no consumer has been started and no event is resolved, staged
\* or submitted.
C3_NoConsumerAfterFailedInit ==
  InitFailed =>
    /\ \A c \in Consumers : pc[c] = "unborn"
    /\ done = {}
    /\ submitted = {}

NoOverlap ==
  \A c1, c2 \in Consumers : (InPipeline(c1) /\ InPipeline(c2)) => c1 = c2

SubmitInOrder ==
  \A r \in submitted' \ submitted : \A q \in submitted : q[2] <= r[2]

\* C7, as claimed: events are submitted for approval in the order they were
\* received, and never are two pipelines in progress at the same time.
C7_InOrderWithoutOverlap == [](NoOverlap) /\ [][SubmitInOrder]_vars

\* The registry returned no organization to consumer c's gatherOrdererInfo.
ZeroOrgs(c) ==
  /\ pc[c] = "stage"
  /\ local[c].info.err = Nil
  /\ Len(local[c].info.ordererOrg) = 0

C9_NoOrgSignalled ==
  \A c \in Consumers : ZeroOrgs(c) =>
    /\ local[c].err = NoOrdererOrg
    /\ ~Created(TempFile(c, cur[c]))
    /\ <<c, cur[c]>> \notin submitted

C9_NoOrgEndsRun ==
  \A c \in Consumers : (ZeroOrgs(c) /\ pc'[c] # pc[c]) =>
    /\ pc'[c] = "idle"
    /\ <<c, cur[c]>> \in done'
    /\ disk' = disk
    /\ submitted' = submitted

\* C9: when the registry returns zero organizations, gatherOrdererInfo
\* returns the "No orderer organization found" error, and that run of
\* processEvent returns without having created a temp file or executed the
\* approval command.
C9_NoOrgNoTempFile == [](C9_NoOrgSignalled) /\ [][C9_NoOrgEndsRun]_vars

C9_Witness ==
  \E c \in Consumers : ZeroOrgs(c) /\ local[c].err = NoOrdererOrg

\* Consumer c's processEvent has met an error: at resolution, at staging or
\* at submission.
Failed(c) == pc[c] \in {"stage", "approve", "remove"} /\ local[c].err # Nil

StillRunningAfterFailure ==
  \A c \in Consumers : (Failed(c) /\ pc'[c] # pc[c]) => pc'[c] = "idle"

\* C8, as claimed: after an event has failed at resolution, staging or
\* submission the consumer is still running, and the next event of the
\* stream is eventually received and processed to the end.
C8_NextEventProcessed ==
  /\ [][StillRunningAfterFailure]_vars
  /\ \A c \in Consumers, n \in EventIds :
       (Failed(c) /\ queue[c] # <<>> /\ Head(queue[c]) = n) ~> (<<c, n>> \in done)

\* ------------------- more claims about the dispatcher ------------------
UnknownFunctionError(fname) == Error(<<"Requested function not found", fname>>)
InvalidChannelError == Error(<<"ChannelID not specified">>)
ProposalRetrievalError(err) ==
  Error(<<"Failed getting signed proposal from stub", err>>)
NameExtractionError(err) ==
  Error(<<"Failed to identify the called chaincode", err>>)

\* The latest call came from this chaincode itself with two arguments or more.
RightfulCall ==
  /\ lastInvoke.called
  /\ Len(lastInvoke.args) >= 2
  /\ lastInvoke.proposal.spErr = Nil
  /\ lastInvoke.proposal.nameErr = Nil
  /\ lastInvoke.proposal.name = Name

\* What os.Stat reported for the marker of the call's channel.
MarkerSeen ==
  ~IsNotExist(Stat(ForkInfoPath(lastInvoke.args[2]), lastInvoke.files,
                   lastInvoke.fault))

\* C11: for a call from the rightful invoker with at least two arguments,
\* ApproveSensoryReading answers success with the second argument as
\* payload, SimulateForkAttempt success without payload, CheckForkStatus the
\* oracle's answer for the second argument (the invalid-channel error when
\* it is empty), and every other function name the unknown-function error.
C11_RoutingTotalAndExact ==
  RightfulCall =>
    LET fname == lastInvoke.args[1]
        arg == lastInvoke.args[2]
        resp == lastInvoke.response
    IN  /\ fname = approveSensoryReading => resp = Success(arg)
        /\ fname = simulateForkAttempt => resp = Success(Nil)
        /\ (fname = checkForkStatus /\ arg = "") => resp = InvalidChannelError
        /\ (fname = checkForkStatus /\ arg # "") =>
             resp = Success(Marshal(MarkerSeen))
        /\ fname \notin {approveSensoryReading, simulateForkAttempt, checkForkStatus}
             => resp = UnknownFunctionError(fname)

C11_Witness ==
  /\ RightfulCall
  /\ lastInvoke.args[1] = simulateForkAttempt
  /\ lastInvoke.response = Success(Nil)

\* C17: the response is the error of the first check that fails, in the
\* order argument count, signed-proposal retrieval, extraction of the
\* invoked name, identity comparison, routing; so a missing proposal gives
\* the retrieval error even for an unknown function name, and an unknown
\* function name from another chaincode gives the identity error.
C17_FirstFailingCheckWins ==
  lastInvoke.called =>
    LET args == lastInvoke.args
        prop == lastInvoke.proposal
        resp == lastInvoke.response
    IN  IF Len(args) < 2 THEN resp = ArgumentCountError(Len(args))
        ELSE IF prop.spErr # Nil THEN resp = ProposalRetrievalError(prop.spErr)
        ELSE IF prop.nameErr # Nil THEN resp = NameExtractionError(prop.nameErr)
        ELSE IF prop.name # Name THEN resp = IdentityMismatchError(prop.name)
        ELSE args[1] \notin {approveSensoryReading, simulateForkAttempt, checkForkStatus}
               => resp = UnknownFunctionError(args[1])

C17_Witness ==
  /\ lastInvoke.called
  /\ Len(lastInvoke.args) >= 2
  /\ lastInvoke.args[1] = "UnknownFn"
  /\ lastInvoke.proposal.spErr # Nil
  /\ lastInvoke.response = ProposalRetrievalError(lastInvoke.proposal.spErr)

\* C12: no call of Invoke, whatever it is routed to and whatever its
\* response, changes bscc.config, creates or removes a temp file, creates
\* or deletes a fork marker or executes the approval command, under any
\* interleaving with the consumer; only published events are submitted.
InvokeLeavesPipelineAlone ==
  lastInvoke' # lastInvoke =>
    UNCHANGED <<config, disk, removed, markers, submitted, pc, cur, queue,
                published, local, done>>

SubmittedWerePublished ==
  \A r \in submitted :
    /\ r[2] \in 1..Len(published)
    /\ cur[r[1]] = r[2] \/ r \in done

\* C12 (see above): the state part and the step part together.
C12_InvokeHasNoSideEffects ==
  [](SubmittedWerePublished) /\ [][InvokeLeavesPipelineAlone]_vars

C12_Witness ==
  /\ RightfulCall
  /\ lastInvoke.args[1] = approveSensoryReading
  /\ lastInvoke.response.status = 200
  /\ \E c \in Consumers : pc[c] = "executing"
  /\ markers # {}

\* ------------------------- claims about Config --------------------------
\* A call of Init returns in this step, with an error.
InitReturnsError ==
  /\ Len(initResults') = Len(initResults) + 1
  /\ initResults'[Len(initResults')].status = 500

ConfigStaysOncePopulated == Populated(config) => config' = config

FailedInitLeavesConfig == InitReturnsError => config' = config

\* C13: once Init has stored the Config record no later step (a further
\* Init, an Invoke, a step of the event pipeline) changes any of its fields,
\* and a call of Init that returns an error leaves bscc.config as it was.
C13_ConfigImmutableOncePopulated ==
  [][ConfigStaysOncePopulated /\ FailedInitLeavesConfig]_vars

\* Init has returned successfully twice and the Config is the populated one.
C13_Witness ==
  /\ Len(initResults) = 2
  /\ \A k \in 1..2 : initResults[k].status = 200
  /\ initPc = "idle"
  /\ Populated(config)
  /\ config.CryptoProvider = PeerCryptoProvider

\* ---------------------- claims about the consumers ----------------------
\* The consumers that have taken event e into processEvent.
Takers(e) == {c \in Consumers : cur[c] = e \/ <<c, e>> \in done}

\* C14, as claimed: each published event is taken into processEvent at most
\* once, gets at most one temp file and at most one run of the approval
\* command, and is not processed again after it was dropped.
C14_EventConsumedOnce ==
  \A e \in EventIds :
    /\ Cardinality(Takers(e)) <= 1
    /\ Cardinality({c \in Consumers : Created(TempFile(c, e))}) <= 1
    /\ Cardinality({c \in Consumers : <<c, e>> \in submitted}) <= 1

\* ------------------ claims about the order of the steps -----------------
\* A temp file leaves the disk only in the deferred removal of the run that
\* created it, after that run's approval command has returned.
RemovalOnlyAfterReturn ==
  \A c \in Consumers, e \in EventIds :
    (disk[TempFile(c, e)] # Absent /\ disk'[TempFile(c, e)] = Absent) =>
      /\ pc[c] = "remove"
      /\ cur[c] = e
      /\ <<c, e>> \in submitted
      /\ local[c].cmd = NoCmd

\* The step after the approval command returned ends processEvent normally,
\* with the file removed or, when os.Remove fails, left as it was.
RemovalFailureOnlyLogged ==
  \A c \in Consumers :
    (pc[c] = "remove" /\ pc'[c] # "remove") =>
      /\ pc'[c] = "idle"
      /\ ~crashed'
      /\ <<c, cur[c]>> \in done'
      /\ disk'[DeferredPath(c)] = Absent \/ disk' = disk

\* Whatever the approval command returned, the removal of the staged file
\* is the step that follows.
RemovalDueAfterSubmit ==
  \A c \in Consumers :
    (pc[c] = "remove" /\ ~crashed) =>
      /\ DeferredPath(c) = TempFile(c, cur[c])
      /\ disk[DeferredPath(c)] # Absent
      /\ ENABLED (removeTempFile(c) /\ disk'[DeferredPath(c)] = Absent)

\* The steps of one run come in the order resolve, stage, submit, release.
StepsInOrder ==
  \A c \in Consumers :
    pc'[c] # pc[c] =>
      <<pc[c], pc'[c]>> \in
        {<<"unborn", "spawned">>, <<"spawned", "idle">>, <<"idle", "gather">>,
         <<"gather", "stage">>, <<"gather", "panicked">>,
         <<"stage", "approve">>, <<"stage", "idle">>,
         <<"approve", "executing">>, <<"approve", "idle">>,
         <<"executing", "remove">>, <<"remove", "idle">>}

\* C15: within one run the steps are ordered resolve, stage, submit,
\* release; the temp file is removed only after the approval command has
\* returned, whether it succeeded or failed, and a failing removal is only
\* logged: processEvent returns and the consumer goes on.
C15_ReleaseAfterSubmit ==
  /\ [](RemovalDueAfterSubmit)
  /\ [][StepsInOrder /\ RemovalOnlyAfterReturn /\ RemovalFailureOnlyLogged]_vars

\* The approval of event 1 was submitted, the removal of its file failed,
\* and the same consumer has gone on to event 2.
C15_Witness ==
  \E c \in Consumers :
    /\ <<c, 1>> \in submitted \cap done
    /\ disk[TempFile(c, 1)] # Absent
    /\ cur[c] = 2

\* ----------------------- claims about the resolver ----------------------
\* gatherOrdererInfo has returned an endpoint to consumer c's processEvent.
Resolved(c) == pc[c] = "stage" /\ local[c].err = Nil

Range(f) == {f[i] : i \in DOMAIN f}

FirstOfFirst ==
  \A c \in Consumers : Resolved(c) =>
    /\ local[c].address = local[c].info.ordererOrg[1].Addresses[1]
    /\ local[c].rootCertFile = local[c].info.ordererOrg[1].RootCerts[1]

SameOrganization ==
  \A c \in Consumers : Resolved(c) =>
    \E k \in DOMAIN local[c].info.ordererOrg :
      /\ local[c].address \in Range(local[c].info.ordererOrg[k].Addresses)
      /\ local[c].rootCertFile \in Range(local[c].info.ordererOrg[k].RootCerts)

SameRegistrySameEndpoint ==
  \A c1, c2 \in Consumers :
    (Resolved(c1) /\ Resolved(c2) /\ local[c1].info = local[c2].info) =>
      /\ local[c1].address = local[c2].address
      /\ local[c1].rootCertFile = local[c2].rootCertFile

NothingCarriedOver ==
  \A c \in Consumers : pc[c] \in {"idle", "gather"} => local[c] = NoLocals

\* While the approval command of consumer c runs, its arguments are those
\* of the event in hand and the staged file holds the resolved certificate.
BuiltFromEventInHand(c) ==
  LET ev == published[cur[c]]
      cmd == local[c].cmd
  IN  /\ cmd.channelID = ev.ChannelID
      /\ cmd.txID = ev.SensoryTxID
      /\ cmd.ordererAddress = local[c].address
      /\ cmd.ordererAddress = OrdererAddress(ev.ChannelID, 1)
      /\ cmd.rootCertFilePath = TempFile(c, cur[c])
      /\ disk[cmd.rootCertFilePath] = local[c].rootCertFile
      /\ disk[cmd.rootCertFilePath] = RootCert(ev.ChannelID, 1)

\* C18: every approval submission carries the channel id and transaction id
\* of the event being processed and the orderer address and certificate
\* resolved for that event's channel in the same run, nothing being kept
\* from an earlier event, and the staged file is on disk for as long as the
\* submission call lasts.
C18_SubmissionFromCurrentEvent ==
  /\ NothingCarriedOver
  /\ \A c \in Consumers : pc[c] = "executing" => BuiltFromEventInHand(c)

\* A consumer that submitted event 1 on ch1 is submitting event 2 on ch2.
C18_Witness ==
  \E c \in Consumers :
    /\ pc[c] = "executing"
    /\ cur[c] = 2
    /\ published[2].ChannelID = "ch2"
    /\ <<c, 1>> \in submitted \cap done
    /\ local[c].cmd.ordererAddress = OrdererAddress("ch2", 1)
    /\ local[c].cmd.txID = TxID(2)

\* C19, as claimed: whatever the registry returns for an event's channel,
\* an organization without addresses or without root certificates
\* included, processEvent returns and neither the consumer nor the process
\* is terminated.
C19_ConsumerSurvivesRegistry ==
  /\ ~crashed
  /\ \A c \in Consumers : pc[c] # "panicked"

\* C20, as claimed: after any sequence of Init calls, successful or failed,
\* at most one goroutine is subscribed to the global event bus for this
\* chaincode.
C20_AtMostOneConsumer == Cardinality(Subscribed) <= 1

====
